---- MODULE Spec2Model ----
(***************************************************************************)
(* Model of the y3nko ride-sharing GraphQL backend: the authorization      *)
(* guard, the error classifier, the trip / booking / vehicle / review      *)
(* resolvers over the relational store, and the in-memory rate limiter.    *)
(*                                                                         *)
(* A resolver is an async function; every `await query(...)` is one SQL    *)
(* statement that the store executes atomically (autocommit), and other    *)
(* requests may run between two awaits of the same resolver.  A resolver   *)
(* with a single statement is therefore one action; createReview, with     *)
(* four statements, is one action per statement.                           *)
(*                                                                         *)
(* Error messages are sequences of words, so that the classifier's         *)
(* `message.includes(...)` tests are computed and not assumed.             *)
(***************************************************************************)
EXTENDS Integers, Sequences, FiniteSets, TLC

VARIABLES
    trips,            \* table trips: id (index) -> row
    bookings,         \* table bookings: id (index) -> row
    vehicles,         \* table vehicles: id (index) -> <<row>>, or <<>> once deleted
    reviews,          \* table reviews: sequence of rows in insertion order
    driver_profiles,  \* table driver_profiles: sequence of rows
    last,             \* the last finished resolver call and what it returned
    proc,             \* in-flight createReview calls, one per request handler
    store,            \* InMemoryRateLimiter.store: key -> <<entry>> or <<>>
    now,              \* Date.now()
    log,              \* the rate limiter's answers so far, in order
    payments,         \* table payments: id (index) -> row
    session,          \* the last request authMiddleware handled and the context it built
    db,               \* the rows committed through sql.begin or written outside it
    tx,               \* the transaction(callback) call in flight, if any
    pipe              \* each request handler's place in the express pipeline

vars == <<trips, bookings, vehicles, reviews, driver_profiles, last, proc, store, now, log,
          payments, session, db, tx, pipe>>

(***************************************************************************)
(* Bounds of the model.                                                    *)
(***************************************************************************)
\* Rows inserted into trips, bookings and vehicles together in one run.
MaxRows == 2
\* RATE_LIMIT_WINDOW_MS and RATE_LIMIT_MAX_REQUESTS, scaled down (clock ticks, requests).
windowMs == 2
maxRequests == 2
\* The clock stops at MaxTime; the limiter answers at most MaxLog requests.
MaxTime == 5
MaxLog == 5
\* Review rows written in one run.
MaxReviews == 2
\* Payment rows written in one run.
MaxPayments == 2
\* Driver profile rows written in one run.
MaxProfiles == 3
\* The count a key's entry reaches through the request pipeline.
MaxCount == 3
\* Phrases joined into an error message handed to the classifier.
MaxPhrases == 2
\* Statements a transaction callback issues; transactions in one run.
MaxWrites == 2
MaxTx == 2

\* Registered users (rows of table users); Undefined is JavaScript's undefined.
Users == {"u1", "u2"}
Undefined == "undefined"

\* Table users as createUser wrote it: u1 registered as a driver, u2 as a rider.
users == [uid \in Users |-> [user_type |-> IF uid = "u1" THEN "driver" ELSE "rider"]]

(***************************************************************************)
(* Error messages thrown by the code, word by word.                        *)
(***************************************************************************)
MsgNone == <<>>
MsgAuthenticationRequired == <<"Authentication", "required">>
MsgTripNotFound == <<"Trip", "not", "found", "or", "unauthorized">>
MsgBookingNotFoundOrUnauthorized == <<"Booking", "not", "found", "or", "unauthorized">>
MsgBookingNotFound == <<"Booking", "not", "found">>
MsgRating == <<"Rating", "must", "be", "between", "1", "and", "5">>
MsgReviewExists == <<"Review", "already", "exists", "for", "this", "booking">>
\* postgres: new row for relation "reviews" violates check constraint
MsgCheckConstraint == <<"new", "row", "for", "relation", "violates", "check", "constraint">>
\* postgres: insert or update on table "bookings" violates foreign key constraint
MsgForeignKey == <<"insert", "or", "update", "on", "table", "violates", "foreign", "key", "constraint">>

(***************************************************************************)
(* Authorization guard (middleware/auth).                                  *)
(***************************************************************************)
\* Every GraphQLContext shape: authMiddleware only builds the first and the
\* authenticated ones, requireAuth guards against all of them.
Contexts == [isAuthenticated : BOOLEAN, user : Users \cup {Undefined}]

Anonymous == [isAuthenticated |-> FALSE, user |-> Undefined]

\* The contexts authMiddleware builds: anonymous, or a verified user.
BuiltContexts == {c \in Contexts : c.isAuthenticated <=> c.user # Undefined}

Unauthenticated(context) == ~context.isAuthenticated \/ context.user = Undefined

requireAuth_NoCheck(context) ==
    [threw |-> FALSE, message |-> MsgNone, user |-> context.user]

requireAuth(context) ==
    IF ~context.isAuthenticated \/ context.user = Undefined
      THEN [threw |-> TRUE, message |-> MsgAuthenticationRequired, user |-> Undefined]
      ELSE [threw |-> FALSE, message |-> MsgNone, user |-> context.user]

(***************************************************************************)
(* authMiddleware.  A header is the sequence of its characters; a request  *)
(* holds its headers object (<<>> when it has none) and in it the          *)
(* authorization header (<<>> when absent).  The identity provider is the  *)
(* table of the tokens it accepts, each with the claims it decodes to.     *)
(***************************************************************************)
BearerPrefix == <<"B", "e", "a", "r", "e", "r", " ">>

\* String.prototype.startsWith
StartsWith(s, prefix) ==
    Len(s) >= Len(prefix) /\ SubSeq(s, 1, Len(prefix)) = prefix

\* JavaScript truthiness of a claim value: undefined, false and '' are falsy.
Truthy(v) == v \notin {Undefined, "false", ""}

ClaimNames == {"uid", "admin", "driver"}

\* The decoded ID token: the subject and the custom claims set on the account.
DecodedToken(uid, admin, driver) ==
    [name \in ClaimNames |->
        IF name = "uid" THEN uid ELSE IF name = "admin" THEN admin ELSE driver]

\* admin.auth().verifyIdToken(token): <<decodedToken>>, or <<>> when it rejects.
verifyIdToken(token) ==
    IF token = <<"a">> THEN <<DecodedToken("u1", "true", Undefined)>>
    ELSE IF token = <<"b">> THEN <<DecodedToken("u2", "false", "true")>>
    ELSE <<>>

AuthorizationHeaders ==
    { <<>>,
      BearerPrefix \o <<"a">>,
      BearerPrefix \o <<"b">>,
      BearerPrefix \o <<"x">>,
      BearerPrefix,
      <<"B", "e", "a", "r", "e", "r", "a">>,
      <<"b", "e", "a", "r", "e", "r", " ", "a">>,
      <<" ">> \o BearerPrefix \o <<"a">>,
      <<"B", "a", "s", "i", "c", " ", "a">> }

AuthRequests ==
    {[headers |-> <<>>]}
      \cup {[headers |-> <<[authorization |-> <<>>]>>]}
      \cup {[headers |-> <<[authorization |-> <<h>>]>>] : h \in AuthorizationHeaders}

\* The context of a verified caller: user is the FirebaseUser's uid and
\* custom_claims its custom_claims, <<decodedToken>>.
AnonymousContext ==
    [isAuthenticated |-> FALSE, user |-> Undefined, custom_claims |-> <<>>]

\* authMiddleware with the verifier called before the header is looked at.
authMiddlewareR_VerifyFirst(req) ==
    IF req.headers = <<>> \/ req.headers[1].authorization = <<>>
      THEN [context |-> AnonymousContext, verified |-> <<>>, raised |-> FALSE]
      ELSE LET authHeader == req.headers[1].authorization[1]
               token == SubSeq(authHeader, 8, Len(authHeader))
               decodedToken == verifyIdToken(token)
           IN  IF authHeader = <<>> \/ ~StartsWith(authHeader, BearerPrefix)
                     \/ decodedToken = <<>>
                 THEN [context |-> AnonymousContext, verified |-> <<token>>,
                       raised |-> FALSE]
                 ELSE [context |-> [isAuthenticated |-> TRUE,
                                    user |-> decodedToken[1]["uid"],
                                    custom_claims |-> decodedToken],
                       verified |-> <<token>>, raised |-> FALSE]

\* authMiddleware: the context it resolves to, the tokens it handed to the
\* verifier, and whether it raised.  Reading `authorization` of a request
\* without headers is a TypeError, which the outer catch turns into the
\* anonymous context.
authMiddlewareR(req) ==
    IF req.headers = <<>>
      THEN [context |-> AnonymousContext, verified |-> <<>>, raised |-> FALSE]
    ELSE IF req.headers[1].authorization = <<>>
      THEN [context |-> AnonymousContext, verified |-> <<>>, raised |-> FALSE]
    ELSE LET authHeader == req.headers[1].authorization[1]
         IN  IF authHeader = <<>> \/ ~StartsWith(authHeader, BearerPrefix)
               THEN [context |-> AnonymousContext, verified |-> <<>>, raised |-> FALSE]
               ELSE LET token == SubSeq(authHeader, 8, Len(authHeader))
                        decodedToken == verifyIdToken(token)
                    IN  IF decodedToken = <<>>
                          THEN [context |-> AnonymousContext, verified |-> <<token>>,
                                raised |-> FALSE]
                          ELSE [context |-> [isAuthenticated |-> TRUE,
                                             user |-> decodedToken[1]["uid"],
                                             custom_claims |-> decodedToken],
                                verified |-> <<token>>, raised |-> FALSE]

NoSession == [handled |-> FALSE, req |-> [headers |-> <<>>], context |-> AnonymousContext,
              verified |-> <<>>, raised |-> FALSE]

\* One request through authMiddleware.
authMiddleware(req) ==
    /\ LET r == authMiddlewareR(req)
       IN  session' = [handled |-> TRUE, req |-> req, context |-> r.context,
                       verified |-> r.verified, raised |-> r.raised]
    /\ UNCHANGED <<trips, bookings, vehicles, reviews, driver_profiles, last, proc, store, now,
                   log, payments, db, tx, pipe>>

\* Every context shape requireAuth and requireRole may be handed: the built
\* ones, and those whose fields disagree or whose claims are missing.
ClaimsContexts ==
    [isAuthenticated : BOOLEAN, user : Users \cup {Undefined},
     custom_claims : {<<>>} \cup {<<DecodedToken(uid, admin, driver)>> :
                                     uid \in {"u1"}, admin \in {"true", "false", Undefined},
                                     driver \in {"true", Undefined}}]

RequiredRoles == {"admin", "driver", "uid"}

MsgInsufficientPermissions(requiredRole) ==
    <<"Insufficient", "permissions", ".", "Required", "role", ":", requiredRole>>

\* requireRole with the claim looked up by presence and not by truthiness.
requireRole_AnyValue(context, requiredRole) ==
    LET auth == requireAuth(context)
    IN  IF auth.threw
          THEN auth
        ELSE IF context.custom_claims = <<>>
                  \/ context.custom_claims[1][requiredRole] = Undefined
          THEN [threw |-> TRUE, message |-> MsgInsufficientPermissions(requiredRole),
                user |-> Undefined]
        ELSE auth

requireRole(context, requiredRole) ==
    LET auth == requireAuth(context)
    IN  IF auth.threw
          THEN auth
        ELSE IF context.custom_claims = <<>>
                  \/ ~Truthy(context.custom_claims[1][requiredRole])
          THEN [threw |-> TRUE, message |-> MsgInsufficientPermissions(requiredRole),
                user |-> Undefined]
        ELSE auth

requireAdmin(context) == requireRole(context, "admin")

(***************************************************************************)
(* Error classifier (middleware/errorHandler).                             *)
(***************************************************************************)
\* String.prototype.includes on word sequences: pat occurs contiguously in msg.
Includes(msg, pat) ==
    \E i \in 1..(Len(msg) - Len(pat) + 1) : SubSeq(msg, i, i + Len(pat) - 1) = pat

\* errorHandler without the production branch.
errorHandler_NoRedaction(message, production) ==
    IF Includes(message, <<"Authentication", "required">>)
      THEN [message |-> <<"Authentication", "required">>,
            code |-> "UNAUTHENTICATED", statusCode |-> 401]
    ELSE IF Includes(message, <<"Insufficient", "permissions">>)
      THEN [message |-> <<"Insufficient", "permissions">>,
            code |-> "FORBIDDEN", statusCode |-> 403]
    ELSE IF Includes(message, <<"not", "found">>)
      THEN [message |-> <<"Resource", "not", "found">>,
            code |-> "NOT_FOUND", statusCode |-> 404]
    ELSE IF Includes(message, <<"duplicate", "key">>) \/ Includes(message, <<"already", "exists">>)
      THEN [message |-> <<"Resource", "already", "exists">>,
            code |-> "CONFLICT", statusCode |-> 409]
    ELSE IF Includes(message, <<"validation">>)
      THEN [message |-> <<"Validation", "error">>,
            code |-> "BAD_USER_INPUT", statusCode |-> 400]
    ELSE IF Includes(message, <<"database">>) \/ Includes(message, <<"connection">>)
      THEN [message |-> <<"Database", "error", "occurred">>,
            code |-> "INTERNAL_SERVER_ERROR", statusCode |-> 500]
    ELSE [message |-> message, code |-> "INTERNAL_SERVER_ERROR", statusCode |-> 500]

errorHandler(message, production) ==
    IF Includes(message, <<"Authentication", "required">>)
      THEN [message |-> <<"Authentication", "required">>,
            code |-> "UNAUTHENTICATED", statusCode |-> 401]
    ELSE IF Includes(message, <<"Insufficient", "permissions">>)
      THEN [message |-> <<"Insufficient", "permissions">>,
            code |-> "FORBIDDEN", statusCode |-> 403]
    ELSE IF Includes(message, <<"not", "found">>)
      THEN [message |-> <<"Resource", "not", "found">>,
            code |-> "NOT_FOUND", statusCode |-> 404]
    ELSE IF Includes(message, <<"duplicate", "key">>) \/ Includes(message, <<"already", "exists">>)
      THEN [message |-> <<"Resource", "already", "exists">>,
            code |-> "CONFLICT", statusCode |-> 409]
    ELSE IF Includes(message, <<"validation">>)
      THEN [message |-> <<"Validation", "error">>,
            code |-> "BAD_USER_INPUT", statusCode |-> 400]
    ELSE IF Includes(message, <<"database">>) \/ Includes(message, <<"connection">>)
      THEN [message |-> <<"Database", "error", "occurred">>,
            code |-> "INTERNAL_SERVER_ERROR", statusCode |-> 500]
    ELSE IF production
      THEN [message |-> <<"An", "unexpected", "error", "occurred">>,
            code |-> "INTERNAL_SERVER_ERROR", statusCode |-> 500]
    ELSE [message |-> message, code |-> "INTERNAL_SERVER_ERROR", statusCode |-> 500]

(***************************************************************************)
(* What a resolver call comes to: it throws `message`, or returns `value`  *)
(* (a one-element sequence), after `queries` data-access calls.            *)
(***************************************************************************)
Threw(message, queries) ==
    [threw |-> TRUE, message |-> message, value |-> <<>>, queries |-> queries]

Returned(v, queries) ==
    [threw |-> FALSE, message |-> MsgNone, value |-> <<v>>, queries |-> queries]

\* The record kept of a finished call: its arguments (id, and arg when it takes
\* a second one), what it found before it acted (pre), and what it came to.
CallWith(op, context, id, arg, pre, out) ==
    [op |-> op, context |-> context, id |-> id, arg |-> arg, pre |-> pre,
     threw |-> out.threw, message |-> out.message, value |-> out.value,
     queries |-> out.queries]

Call(op, context, id, pre, out) == CallWith(op, context, id, 0, pre, out)

NoCall == Call("none", Anonymous, 0, <<>>, Returned(0, 0))

(***************************************************************************)
(* Trip resolvers (resolvers/tripResolvers).  A trip id is its index in    *)
(* the table; Len(trips) + 1 is an id that names no row.                   *)
(***************************************************************************)
RowCount == Len(trips) + Len(bookings) + Len(vehicles)

TripIds == 1..(Len(trips) + 1)

TripRow(table, id) == IF id \in DOMAIN table THEN <<table[id]>> ELSE <<>>

\* UPDATE trips SET trip_status = status WHERE id = $1 RETURNING *
\* (the owner condition dropped)
UpdateTripStatus_AnyCaller(table, id, uid, status) ==
    LET hit == id \in DOMAIN table
    IN  [table |-> IF hit THEN [table EXCEPT ![id].trip_status = status] ELSE table,
         rows |-> IF hit THEN <<[table[id] EXCEPT !.trip_status = status]>> ELSE <<>>]

\* UPDATE trips SET trip_status = status WHERE driver_id = $2 RETURNING *
\* (the id condition dropped)
UpdateTripStatus_AllOfDriver(table, id, uid, status) ==
    LET hit == id \in DOMAIN table /\ table[id].driver_id = uid
    IN  [table |-> [t \in DOMAIN table |->
                      IF table[t].driver_id = uid
                        THEN [table[t] EXCEPT !.trip_status = status] ELSE table[t]],
         rows |-> IF hit THEN <<[table[id] EXCEPT !.trip_status = status]>> ELSE <<>>]

\* UPDATE trips SET trip_status = status WHERE id = $1 AND driver_id = $2 RETURNING *
UpdateTripStatus(table, id, uid, status) ==
    LET hit == id \in DOMAIN table /\ table[id].driver_id = uid
    IN  [table |-> IF hit THEN [table EXCEPT ![id].trip_status = status] ELSE table,
         rows |-> IF hit THEN <<[table[id] EXCEPT !.trip_status = status]>> ELSE <<>>]

\* The body shared by cancelTrip, startTrip and completeTrip.
SetTripStatus(table, context, id, status) ==
    LET auth == requireAuth(context)
    IN  IF auth.threw
          THEN [table |-> table, out |-> Threw(auth.message, 0)]
          ELSE LET result == UpdateTripStatus(table, id, auth.user, status)
               IN  [table |-> result.table,
                    out |-> IF result.rows = <<>>
                              THEN Threw(MsgTripNotFound, 1)
                              ELSE Returned(result.rows[1], 1)]

cancelTripR(table, context, id) == SetTripStatus(table, context, id, "cancelled")

startTripR(table, context, id) == SetTripStatus(table, context, id, "active")

completeTripR(table, context, id) == SetTripStatus(table, context, id, "completed")

createTripR(table, context) ==
    LET auth == requireAuth(context)
        row == [id |-> Len(table) + 1, driver_id |-> auth.user, trip_status |-> "scheduled"]
    IN  IF auth.threw
          THEN [table |-> table, out |-> Threw(auth.message, 0)]
          ELSE [table |-> Append(table, row), out |-> Returned(row, 1)]

createTrip(context) ==
    /\ RowCount < MaxRows
    /\ LET r == createTripR(trips, context)
       IN  /\ trips' = r.table
           /\ last' = Call("createTrip", context, Len(trips) + 1, <<>>, r.out)
    /\ UNCHANGED <<bookings, vehicles, reviews, driver_profiles, proc, store, now, log, payments, session, db, tx, pipe>>

cancelTrip(context, id) ==
    /\ LET r == cancelTripR(trips, context, id)
       IN  /\ trips' = r.table
           /\ last' = Call("cancelTrip", context, id, TripRow(trips, id), r.out)
    /\ UNCHANGED <<bookings, vehicles, reviews, driver_profiles, proc, store, now, log, payments, session, db, tx, pipe>>

startTrip(context, id) ==
    /\ LET r == startTripR(trips, context, id)
       IN  /\ trips' = r.table
           /\ last' = Call("startTrip", context, id, TripRow(trips, id), r.out)
    /\ UNCHANGED <<bookings, vehicles, reviews, driver_profiles, proc, store, now, log, payments, session, db, tx, pipe>>

completeTrip(context, id) ==
    /\ LET r == completeTripR(trips, context, id)
       IN  /\ trips' = r.table
           /\ last' = Call("completeTrip", context, id, TripRow(trips, id), r.out)
    /\ UNCHANGED <<bookings, vehicles, reviews, driver_profiles, proc, store, now, log, payments, session, db, tx, pipe>>

(***************************************************************************)
(* Booking resolvers (resolvers/bookingResolvers).                         *)
(***************************************************************************)
BookingIds == 1..(Len(bookings) + 1)

BookingRow(table, id) == IF id \in DOMAIN table THEN <<table[id]>> ELSE <<>>

\* bookings.trip_id REFERENCES trips(id): the INSERT fails for an unknown trip.
createBookingR(table, tripTable, context, tripId) ==
    LET auth == requireAuth(context)
        row == [id |-> Len(table) + 1, trip_id |-> tripId, rider_id |-> auth.user,
                booking_status |-> "pending", payment_status |-> "pending"]
    IN  IF auth.threw
          THEN [table |-> table, out |-> Threw(auth.message, 0)]
        ELSE IF tripId \notin DOMAIN tripTable
          THEN [table |-> table, out |-> Threw(MsgForeignKey, 1)]
        ELSE [table |-> Append(table, row), out |-> Returned(row, 1)]

\* UPDATE bookings SET booking_status = 'confirmed' WHERE id = $1 RETURNING *
confirmBookingR(table, context, id) ==
    LET auth == requireAuth(context)
        hit == id \in DOMAIN table
    IN  IF auth.threw
          THEN [table |-> table, out |-> Threw(auth.message, 0)]
        ELSE IF ~hit
          THEN [table |-> table, out |-> Threw(MsgBookingNotFound, 1)]
        ELSE [table |-> [table EXCEPT ![id].booking_status = "confirmed"],
              out |-> Returned([table[id] EXCEPT !.booking_status = "confirmed"], 1)]

\* UPDATE bookings SET booking_status = 'cancelled'
\*   WHERE id = $1 AND rider_id = $2 RETURNING *
cancelBookingR(table, context, id) ==
    LET auth == requireAuth(context)
        hit == id \in DOMAIN table /\ table[id].rider_id = auth.user
    IN  IF auth.threw
          THEN [table |-> table, out |-> Threw(auth.message, 0)]
        ELSE IF ~hit
          THEN [table |-> table, out |-> Threw(MsgBookingNotFoundOrUnauthorized, 1)]
        ELSE [table |-> [table EXCEPT ![id].booking_status = "cancelled"],
              out |-> Returned([table[id] EXCEPT !.booking_status = "cancelled"], 1)]

createBooking(context, tripId) ==
    /\ RowCount < MaxRows
    /\ LET r == createBookingR(bookings, trips, context, tripId)
       IN  /\ bookings' = r.table
           /\ last' = Call("createBooking", context, Len(bookings) + 1, <<>>, r.out)
    /\ UNCHANGED <<trips, vehicles, reviews, driver_profiles, proc, store, now, log, payments, session, db, tx, pipe>>

confirmBooking(context, id) ==
    /\ LET r == confirmBookingR(bookings, context, id)
       IN  /\ bookings' = r.table
           /\ last' = Call("confirmBooking", context, id, BookingRow(bookings, id), r.out)
    /\ UNCHANGED <<trips, vehicles, reviews, driver_profiles, proc, store, now, log, payments, session, db, tx, pipe>>

cancelBooking(context, id) ==
    /\ LET r == cancelBookingR(bookings, context, id)
       IN  /\ bookings' = r.table
           /\ last' = Call("cancelBooking", context, id, BookingRow(bookings, id), r.out)
    /\ UNCHANGED <<trips, vehicles, reviews, driver_profiles, proc, store, now, log, payments, session, db, tx, pipe>>

(***************************************************************************)
(* Vehicle resolvers (resolvers/userResolvers).  A deleted vehicle leaves  *)
(* <<>> at its index: ids are fresh UUIDs and never used again.            *)
(***************************************************************************)
VehicleIds == 1..(Len(vehicles) + 1)

VehicleRow(table, id) == IF id \in DOMAIN table THEN table[id] ELSE <<>>

createVehicleR(table, context) ==
    LET auth == requireAuth(context)
        row == [id |-> Len(table) + 1, driver_id |-> auth.user]
    IN  IF auth.threw
          THEN [table |-> table, out |-> Threw(auth.message, 0)]
          ELSE [table |-> Append(table, <<row>>), out |-> Returned(row, 1)]

\* DELETE FROM vehicles WHERE id = $1 AND driver_id = $2
\* The statement has no RETURNING clause, so the driver's result holds no rows
\* whether or not a row was deleted.
deleteVehicleR(table, context, id) ==
    LET auth == requireAuth(context)
        hit == VehicleRow(table, id) # <<>> /\ VehicleRow(table, id)[1].driver_id = auth.user
        result == <<>>
    IN  IF auth.threw
          THEN [table |-> table, out |-> Threw(auth.message, 0)]
          ELSE [table |-> IF hit THEN [table EXCEPT ![id] = <<>>] ELSE table,
                out |-> Returned(Len(result) > 0, 1)]

createVehicle(context) ==
    /\ RowCount < MaxRows
    /\ LET r == createVehicleR(vehicles, context)
       IN  /\ vehicles' = r.table
           /\ last' = Call("createVehicle", context, Len(vehicles) + 1, <<>>, r.out)
    /\ UNCHANGED <<trips, bookings, reviews, driver_profiles, proc, store, now, log, payments, session, db, tx, pipe>>

deleteVehicle(context, id) ==
    /\ LET r == deleteVehicleR(vehicles, context, id)
       IN  /\ vehicles' = r.table
           /\ last' = Call("deleteVehicle", context, id, VehicleRow(vehicles, id), r.out)
    /\ UNCHANGED <<trips, bookings, reviews, driver_profiles, proc, store, now, log, payments, session, db, tx, pipe>>

\* createDriverProfile: the INSERT, with average_rating 0.0.  license_number
\* is UNIQUE, user_id is not.
LicenseNumbers == {"L1", "L2", "L3"}

\* postgres: duplicate key value violates unique constraint
\* "driver_profiles_license_number_key"
MsgDuplicateKey == <<"duplicate", "key", "value", "violates", "unique", "constraint">>

createDriverProfileR(table, context, licenseNumber) ==
    LET auth == requireAuth(context)
        row == [user_id |-> auth.user, license_number |-> licenseNumber,
                average_rating |-> <<0>>]
    IN  IF auth.threw
          THEN [table |-> table, out |-> Threw(auth.message, 0)]
        ELSE IF \E i \in DOMAIN table : table[i].license_number = licenseNumber
          THEN [table |-> table, out |-> Threw(MsgDuplicateKey, 1)]
        ELSE [table |-> Append(table, row), out |-> Returned(row, 1)]

createDriverProfile(context, licenseNumber) ==
    /\ Len(driver_profiles) < MaxProfiles
    /\ LET r == createDriverProfileR(driver_profiles, context, licenseNumber)
       IN  /\ driver_profiles' = r.table
           /\ last' = Call("createDriverProfile", context, 0, <<licenseNumber>>, r.out)
    /\ UNCHANGED <<trips, bookings, vehicles, reviews, proc, store, now, log, payments, session, db, tx, pipe>>

(***************************************************************************)
(* Rate limiter (middleware/rateLimiter).                                  *)
(***************************************************************************)
IPs == {"ip1", "ip2"}

\* A request as getKey reads it: the x-forwarded-for header (its comma-separated
\* addresses, <<>> when absent) and the peer address.
Requests == [forwarded : {<<>>, <<"ip2", "ip1">>}, remoteAddress : IPs]

Keys == IPs

getKey(req) == IF req.forwarded # <<>> THEN req.forwarded[1] ELSE req.remoteAddress

Max(a, b) == IF a >= b THEN a ELSE b

\* isAllowed with the expiry test dropped: only a missing entry opens a window.
isAllowedR_NoExpiry(st, req, t) ==
    LET key == getKey(req)
    IN  IF st[key] = <<>>
          THEN [store |-> [st EXCEPT ![key] = <<[count |-> 1, resetTime |-> t + windowMs]>>],
                allowed |-> TRUE, resetTime |-> t + windowMs, remaining |-> maxRequests - 1]
          ELSE LET count == st[key][1].count + 1
               IN  [store |-> [st EXCEPT ![key] = <<[st[key][1] EXCEPT !.count = count]>>],
                    allowed |-> count <= maxRequests,
                    resetTime |-> st[key][1].resetTime,
                    remaining |-> Max(0, maxRequests - count)]

\* isAllowed with `count < maxRequests` for `count <= maxRequests`.
isAllowedR_OffByOne(st, req, t) ==
    LET key == getKey(req)
    IN  IF st[key] = <<>> \/ st[key][1].resetTime < t
          THEN [store |-> [st EXCEPT ![key] = <<[count |-> 1, resetTime |-> t + windowMs]>>],
                allowed |-> TRUE, resetTime |-> t + windowMs, remaining |-> maxRequests - 1]
          ELSE LET count == st[key][1].count + 1
               IN  [store |-> [st EXCEPT ![key] = <<[st[key][1] EXCEPT !.count = count]>>],
                    allowed |-> count < maxRequests,
                    resetTime |-> st[key][1].resetTime,
                    remaining |-> Max(0, maxRequests - count)]

\* isAllowed that leaves the count alone once the limit is reached.
isAllowedR_NoCountWhenDenied(st, req, t) ==
    LET key == getKey(req)
    IN  IF st[key] = <<>> \/ st[key][1].resetTime < t
          THEN [store |-> [st EXCEPT ![key] = <<[count |-> 1, resetTime |-> t + windowMs]>>],
                allowed |-> TRUE, resetTime |-> t + windowMs, remaining |-> maxRequests - 1]
          ELSE LET count == st[key][1].count + 1
               IN  [store |-> IF count <= maxRequests
                                THEN [st EXCEPT ![key] = <<[st[key][1] EXCEPT !.count = count]>>]
                                ELSE st,
                    allowed |-> count <= maxRequests,
                    resetTime |-> st[key][1].resetTime,
                    remaining |-> Max(0, maxRequests - count)]

\* isAllowed that restarts the window at every denied request.
isAllowedR_SlidingWindow(st, req, t) ==
    LET key == getKey(req)
    IN  IF st[key] = <<>> \/ st[key][1].resetTime < t
          THEN [store |-> [st EXCEPT ![key] = <<[count |-> 1, resetTime |-> t + windowMs]>>],
                allowed |-> TRUE, resetTime |-> t + windowMs, remaining |-> maxRequests - 1]
          ELSE LET count == st[key][1].count + 1
                   resetTime == IF count <= maxRequests THEN st[key][1].resetTime
                                                        ELSE t + windowMs
               IN  [store |-> [st EXCEPT ![key] = <<[count |-> count, resetTime |-> resetTime]>>],
                    allowed |-> count <= maxRequests,
                    resetTime |-> resetTime,
                    remaining |-> Max(0, maxRequests - count)]

\* InMemoryRateLimiter.isAllowed at Date.now() = t: the new store and the answer.
isAllowedR(st, req, t) ==
    LET key == getKey(req)
    IN  IF st[key] = <<>> \/ st[key][1].resetTime < t
          THEN [store |-> [st EXCEPT ![key] = <<[count |-> 1, resetTime |-> t + windowMs]>>],
                allowed |-> TRUE, resetTime |-> t + windowMs, remaining |-> maxRequests - 1]
          ELSE LET count == st[key][1].count + 1
               IN  [store |-> [st EXCEPT ![key] = <<[st[key][1] EXCEPT !.count = count]>>],
                    allowed |-> count <= maxRequests,
                    resetTime |-> st[key][1].resetTime,
                    remaining |-> Max(0, maxRequests - count)]

\* cleanup that also removes an entry whose window ends at this instant.
cleanupR_AtReset(st, t) ==
    [key \in DOMAIN st |->
        IF st[key] # <<>> /\ st[key][1].resetTime <= t THEN <<>> ELSE st[key]]

\* InMemoryRateLimiter.cleanup at Date.now() = t.
cleanupR(st, t) ==
    [key \in DOMAIN st |->
        IF st[key] # <<>> /\ st[key][1].resetTime < t THEN <<>> ELSE st[key]]

\* One request through the limiter; hadEntry records whether the store held an
\* entry for the key when the request arrived.
isAllowed(req) ==
    /\ Len(log) < MaxLog
    /\ LET r == isAllowedR(store, req, now)
       IN  /\ store' = r.store
           /\ log' = Append(log, [key |-> getKey(req), at |-> now,
                                  hadEntry |-> store[getKey(req)] # <<>>,
                                  allowed |-> r.allowed, resetTime |-> r.resetTime,
                                  remaining |-> r.remaining])
    /\ UNCHANGED <<trips, bookings, vehicles, reviews, driver_profiles, last, proc, now, payments, session, db, tx, pipe>>

\* The setInterval callback.
cleanup ==
    /\ store' = cleanupR(store, now)
    /\ UNCHANGED <<trips, bookings, vehicles, reviews, driver_profiles, last, proc, now, log, payments, session, db, tx, pipe>>

\* Time passes.
Tick ==
    /\ now < MaxTime
    /\ now' = now + 1
    /\ UNCHANGED <<trips, bookings, vehicles, reviews, driver_profiles, last, proc, store, log, payments, session, db, tx, pipe>>

(***************************************************************************)
(* Review resolver (resolvers/reviewResolvers).  createReview awaits four  *)
(* statements; a request handler is at one of them (pc), holding the       *)
(* resolver's locals, or idle.  average_rating is kept in hundredths.      *)
(***************************************************************************)
Handlers == {"h1", "h2"}

\* Int! ratings a caller may send: below, at and above the ends of 1..5.
Ratings == {0, 1, 5, 6}

Idle == [pc |-> "idle"]

InFlight == {h \in Handlers : proc[h].pc # "idle"}

\* SELECT b.*, t.driver_id FROM bookings b JOIN trips t ON b.trip_id = t.id
\*   WHERE b.id = $1 AND (b.rider_id = $2 OR t.driver_id = $2)
SelectBookingForParty(bookingId, uid) ==
    IF /\ bookingId \in DOMAIN bookings
       /\ bookings[bookingId].trip_id \in DOMAIN trips
       /\ \/ bookings[bookingId].rider_id = uid
          \/ trips[bookings[bookingId].trip_id].driver_id = uid
      THEN <<[id |-> bookingId, rider_id |-> bookings[bookingId].rider_id,
              driver_id |-> trips[bookings[bookingId].trip_id].driver_id]>>
      ELSE <<>>

\* if (rating < 1 || rating > 5), with the upper test dropped
RatingOutOfRange_OnlyLow(rating) == rating < 1

\* if (rating < 1 || rating > 5)
RatingOutOfRange(rating) == rating < 1 \/ rating > 5

\* The reviews a (booking, reviewer) pair has.
PairReviews(table, bookingId, uid) ==
    SelectSeq(table, LAMBDA row : row.booking_id = bookingId /\ row.reviewer_id = uid)

\* The existence check answering that no review exists.
SelectExistingReview_None(table, bookingId, uid) == <<>>

\* SELECT id FROM reviews WHERE booking_id = $1 AND reviewer_id = $2
SelectExistingReview(table, bookingId, uid) ==
    SelectSeq(table, LAMBDA row : row.booking_id = bookingId /\ row.reviewer_id = uid)

RECURSIVE SumRatings(_)
SumRatings(rows) ==
    IF rows = <<>> THEN 0 ELSE Head(rows).rating + SumRatings(Tail(rows))

ReviewsOf(table, uid) == SelectSeq(table, LAMBDA row : row.reviewee_id = uid)

\* SELECT AVG(rating)::DECIMAL(3,2) FROM reviews WHERE reviewee_id = $1, in
\* hundredths, rounded half up as the numeric cast does; <<>> is NULL.
AvgRating(table, uid) ==
    LET mine == ReviewsOf(table, uid)
    IN  IF mine = <<>>
          THEN <<>>
          ELSE <<(200 * SumRatings(mine) + Len(mine)) \div (2 * Len(mine))>>

\* UPDATE driver_profiles SET average_rating = (SELECT AVG ...) WHERE user_id = $1
UpdateAverageRating(profiles, table, uid) ==
    [i \in DOMAIN profiles |->
        IF profiles[i].user_id = uid
          THEN [profiles[i] EXCEPT !.average_rating = AvgRating(table, uid)]
          ELSE profiles[i]]

ReviewRow(p) ==
    [booking_id |-> p.bookingId, reviewer_id |-> p.context.user,
     reviewee_id |-> p.revieweeId, rating |-> p.rating]

\* The handler's call has come to `out`: it is idle again.
Settle(h, p, out) ==
    /\ proc' = [proc EXCEPT ![h] = Idle]
    /\ last' = CallWith("createReview", p.context, p.bookingId, p.rating, p.existed, out)

\* requireAuth, the rating check and the booking lookup (the first await).
\* existed is no local of the resolver: it keeps, for the properties, the
\* reviews the (booking, caller) pair had when the call began.
createReview_lookup(h, context, bookingId, rating) ==
    /\ proc[h].pc = "idle"
    /\ Len(reviews) + Cardinality(InFlight) < MaxReviews
    /\ LET auth == requireAuth(context)
           bookingResult == SelectBookingForParty(bookingId, auth.user)
           p == [pc |-> "check", context |-> context, bookingId |-> bookingId,
                 rating |-> rating,
                 existed |-> PairReviews(reviews, bookingId, auth.user),
                 booking |-> bookingResult,
                 revieweeId |->
                     IF bookingResult = <<>> THEN Undefined
                     ELSE IF bookingResult[1].rider_id = auth.user
                       THEN bookingResult[1].driver_id
                       ELSE bookingResult[1].rider_id]
       IN  IF auth.threw
             THEN Settle(h, p, Threw(auth.message, 0))
           ELSE IF RatingOutOfRange(rating)
             THEN Settle(h, p, Threw(MsgRating, 0))
           ELSE IF bookingResult = <<>>
             THEN Settle(h, p, Threw(MsgBookingNotFoundOrUnauthorized, 1))
           ELSE proc' = [proc EXCEPT ![h] = p] /\ UNCHANGED last
    /\ UNCHANGED <<trips, bookings, vehicles, reviews, driver_profiles, store, now, log, payments, session, db, tx, pipe>>

\* The existence check (the second await).
createReview_check(h) ==
    /\ proc[h].pc = "check"
    /\ LET p == proc[h]
           existingReview == SelectExistingReview(reviews, p.bookingId, p.context.user)
       IN  IF existingReview # <<>>
             THEN Settle(h, p, Threw(MsgReviewExists, 2))
             ELSE proc' = [proc EXCEPT ![h].pc = "insert"] /\ UNCHANGED last
    /\ UNCHANGED <<trips, bookings, vehicles, reviews, driver_profiles, store, now, log, payments, session, db, tx, pipe>>

\* The INSERT (the third await); a caller who is not the rider returns here.
createReview_insert(h) ==
    /\ proc[h].pc = "insert"
    /\ LET p == proc[h]
       IN  IF p.rating < 1 \/ p.rating > 5
             THEN \* CHECK (rating >= 1 AND rating <= 5): query rethrows
                  /\ Settle(h, p, Threw(MsgCheckConstraint, 3))
                  /\ UNCHANGED reviews
             ELSE /\ reviews' = Append(reviews, ReviewRow(p))
                  /\ IF p.booking[1].rider_id = p.context.user
                       THEN proc' = [proc EXCEPT ![h].pc = "recompute"] /\ UNCHANGED last
                       ELSE Settle(h, p, Returned(ReviewRow(p), 3))
    /\ UNCHANGED <<trips, bookings, vehicles, driver_profiles, store, now, log, payments, session, db, tx, pipe>>

\* The average_rating UPDATE (the fourth await), then the return.
createReview_recompute(h) ==
    /\ proc[h].pc = "recompute"
    /\ LET p == proc[h]
       IN  /\ driver_profiles' = UpdateAverageRating(driver_profiles, reviews, p.revieweeId)
           /\ Settle(h, p, Returned(ReviewRow(p), 4))
    /\ UNCHANGED <<trips, bookings, vehicles, reviews, store, now, log, payments, session, db, tx, pipe>>

(***************************************************************************)
(* Payment resolvers (resolvers/paymentResolvers).  A payment's id is its  *)
(* index in the table, and its paystack_reference (a timestamp and a fresh *)
(* uuid prefix) is of its own as well, so the reference is the id.         *)
(***************************************************************************)
\* CREATE TYPE payment_status AS ENUM (...)
payment_status == {"pending", "paid", "failed", "refunded"}

MsgPaymentNotFound == <<"Payment", "not", "found">>
\* postgres: invalid input value for enum payment_status: "completed"
MsgInvalidEnum == <<"invalid", "input", "value", "for", "enum", "payment_status">>

PaymentIds == 1..(Len(payments) + 1)

PaymentRow(table, id) == IF id \in DOMAIN table THEN <<table[id]>> ELSE <<>>

\* UPDATE payments SET payment_status = status WHERE <id or reference> = $n
\* RETURNING *.  The literal is read as a payment_status when the statement is
\* parsed: one that is no value of the type fails the statement, whatever rows
\* the WHERE clause names.
UpdatePaymentStatus(table, id, status) ==
    IF status \notin payment_status
      THEN [error |-> MsgInvalidEnum, table |-> table, rows |-> <<>>]
    ELSE IF id \notin DOMAIN table
      THEN [error |-> MsgNone, table |-> table, rows |-> <<>>]
    ELSE [error |-> MsgNone,
          table |-> [table EXCEPT ![id].payment_status = status],
          rows |-> <<[table[id] EXCEPT !.payment_status = status]>>]

\* The booking UPDATE left out.
UpdateBookingPaymentStatus_Skipped(table, id, status) == table

\* UPDATE bookings SET payment_status = status WHERE id = $1
UpdateBookingPaymentStatus(table, id, status) ==
    IF id \in DOMAIN table
      THEN [table EXCEPT ![id].payment_status = status]
      ELSE table

\* The booking SELECT (WHERE id = $1 AND rider_id = $2), then the INSERT.  No
\* statement changes a booking's rider_id or removes a booking, so what runs
\* between the two cannot change what the INSERT does.
initializePaymentR(table, bookTable, context, bookingId) ==
    LET auth == requireAuth(context)
        bookingResult ==
            IF bookingId \in DOMAIN bookTable /\ bookTable[bookingId].rider_id = auth.user
              THEN <<bookTable[bookingId]>> ELSE <<>>
        row == [id |-> Len(table) + 1, booking_id |-> bookingId,
                paystack_reference |-> Len(table) + 1, payment_status |-> "pending"]
    IN  IF auth.threw
          THEN [table |-> table, out |-> Threw(auth.message, 0)]
        ELSE IF bookingResult = <<>>
          THEN [table |-> table, out |-> Threw(MsgBookingNotFoundOrUnauthorized, 1)]
        ELSE [table |-> Append(table, row), out |-> Returned(row, 2)]

\* The payments UPDATE writes 'completed'; the bookings UPDATE that follows a
\* matched row writes 'paid'.
verifyPaymentR(table, bookTable, context, reference) ==
    LET auth == requireAuth(context)
        result == UpdatePaymentStatus(table, reference, "completed")
    IN  IF auth.threw
          THEN [table |-> table, bookings |-> bookTable, out |-> Threw(auth.message, 0)]
        ELSE IF result.error # MsgNone
          THEN [table |-> table, bookings |-> bookTable, out |-> Threw(result.error, 1)]
        ELSE IF result.rows = <<>>
          THEN [table |-> table, bookings |-> bookTable, out |-> Threw(MsgPaymentNotFound, 1)]
        ELSE [table |-> result.table,
              bookings |-> UpdateBookingPaymentStatus(bookTable, result.rows[1].booking_id,
                                                      "paid"),
              out |-> Returned(result.rows[1], 2)]

initializePayment(context, bookingId) ==
    /\ Len(payments) < MaxPayments
    /\ LET r == initializePaymentR(payments, bookings, context, bookingId)
       IN  /\ payments' = r.table
           /\ last' = Call("initializePayment", context, bookingId, <<>>, r.out)
    /\ UNCHANGED <<trips, bookings, vehicles, reviews, driver_profiles, proc, store, now, log,
                   session, db, tx, pipe>>

verifyPayment(context, reference) ==
    /\ LET r == verifyPaymentR(payments, bookings, context, reference)
       IN  /\ payments' = r.table
           /\ bookings' = r.bookings
           /\ last' = Call("verifyPayment", context, reference,
                           PaymentRow(payments, reference), r.out)
    /\ UNCHANGED <<trips, vehicles, reviews, driver_profiles, proc, store, now, log, session, db, tx, pipe>>

\* processRefund up to its first await: requireAuth and the payments UPDATE.
processRefund_payment(h, context, paymentId) ==
    /\ proc[h].pc = "idle"
    /\ LET auth == requireAuth(context)
           result == UpdatePaymentStatus(payments, paymentId, "refunded")
           pre == PaymentRow(payments, paymentId)
       IN  IF auth.threw
             THEN /\ last' = Call("processRefund", context, paymentId, pre,
                                  Threw(auth.message, 0))
                  /\ UNCHANGED <<payments, proc>>
           ELSE IF result.rows = <<>>
             THEN /\ last' = Call("processRefund", context, paymentId, pre,
                                  Threw(MsgPaymentNotFound, 1))
                  /\ UNCHANGED <<payments, proc>>
           ELSE /\ payments' = result.table
                /\ proc' = [proc EXCEPT ![h] = [pc |-> "refund_booking", context |-> context,
                                                paymentId |-> paymentId, pre |-> pre,
                                                result |-> result.rows]]
                /\ UNCHANGED last
    /\ UNCHANGED <<trips, bookings, vehicles, reviews, driver_profiles, store, now, log, session, db, tx, pipe>>

\* The bookings UPDATE (the second await), then the return.
processRefund_booking(h) ==
    /\ proc[h].pc = "refund_booking"
    /\ LET p == proc[h]
       IN  /\ bookings' = UpdateBookingPaymentStatus(bookings, p.result[1].booking_id,
                                                     "refunded")
           /\ last' = Call("processRefund", p.context, p.paymentId, p.pre,
                           Returned(p.result[1], 2))
    /\ proc' = [proc EXCEPT ![h] = Idle]
    /\ UNCHANGED <<trips, vehicles, reviews, driver_profiles, payments, store, now, log, session, db, tx, pipe>>

(***************************************************************************)
(* transaction(callback) (config/database).  sql.begin hands the callback  *)
(* a handle on a connection of its own: what the callback writes through   *)
(* it stays on that connection until sql.begin commits (the callback       *)
(* resolved) or rolls back (it rejected).  db holds the committed rows,    *)
(* each with the number of the transaction that wrote it (0: a statement   *)
(* outside any transaction).                                               *)
(***************************************************************************)
TxValues == {"a", "b"}

MsgTransactionFailed == <<"Transaction", "failed">>

RECURSIVE SeqsUpTo(_, _)
SeqsUpTo(S, n) ==
    IF n = 0 THEN {<<>>}
    ELSE SeqsUpTo(S, n - 1)
           \cup {Append(q, v) : q \in {r \in SeqsUpTo(S, n - 1) : Len(r) = n - 1}, v \in S}

\* A callback: the rows it writes through the handle, in order, and then the
\* error it throws (MsgNone: it returns the number of rows it wrote).
Callbacks ==
    [writes : SeqsUpTo(TxValues, MaxWrites),
     error : {MsgNone, MsgTransactionFailed, MsgDuplicateKey}]

NoTransaction == [pc |-> "idle", id |-> 0]

TxRows(id, written) == {[tx |-> id, value |-> written[i]] : i \in DOMAIN written}

\* sql.begin that commits whatever the callback did.
begin_AlwaysCommit(committed, id, written, error) ==
    committed \cup TxRows(id, written)

\* sql.begin once the callback has settled: COMMIT when it resolved, ROLLBACK
\* when it rejected.
begin(committed, id, written, error) ==
    IF error = MsgNone THEN committed \cup TxRows(id, written) ELSE committed

\* transaction is called: sql.begin opens a transaction and calls the callback.
transaction_begin(callback) ==
    /\ tx.pc = "idle"
    /\ tx.id < MaxTx
    /\ tx' = [pc |-> "open", id |-> tx.id + 1, callback |-> callback, written |-> <<>>]
    /\ UNCHANGED <<trips, bookings, vehicles, reviews, driver_profiles, last, proc, store, now,
                   log, payments, session, db, pipe>>

\* The callback awaits its next statement on the handle.
transaction_write ==
    /\ tx.pc = "open"
    /\ Len(tx.written) < Len(tx.callback.writes)
    /\ tx' = [tx EXCEPT !.written = Append(@, tx.callback.writes[Len(@) + 1])]
    /\ UNCHANGED <<trips, bookings, vehicles, reviews, driver_profiles, last, proc, store, now,
                   log, payments, session, db, pipe>>

\* The callback settles: sql.begin commits or rolls back, and transaction
\* returns the callback's result or logs and rethrows what it caught.
transaction_settle ==
    /\ tx.pc = "open"
    /\ Len(tx.written) = Len(tx.callback.writes)
    /\ db' = begin(db, tx.id, tx.written, tx.callback.error)
    /\ last' = Call("transaction", Anonymous, tx.id, <<tx.callback>>,
                    IF tx.callback.error = MsgNone
                      THEN Returned(Len(tx.written), Len(tx.written))
                      ELSE Threw(tx.callback.error, Len(tx.written)))
    /\ tx' = [pc |-> "idle", id |-> tx.id]
    /\ UNCHANGED <<trips, bookings, vehicles, reviews, driver_profiles, proc, store, now, log,
                   payments, session, pipe>>

\* A statement of another request, outside any transaction (query).
query(value) ==
    /\ db' = db \cup {[tx |-> 0, value |-> value]}
    /\ UNCHANGED <<trips, bookings, vehicles, reviews, driver_profiles, last, proc, store, now,
                   log, payments, session, tx, pipe>>

\* A request handler that no request occupies.
NoRequest ==
    [stage |-> "idle", req |-> <<>>, trail |-> <<>>, next |-> FALSE, status |-> 0,
     headers |-> <<>>, body |-> <<>>, context |-> <<>>]

(***************************************************************************)
(* The store under sequential and interleaved single-statement resolvers.  *)
(***************************************************************************)
Init ==
    /\ trips = <<>>
    /\ bookings = <<>>
    /\ vehicles = <<>>
    /\ reviews = <<>>
    /\ driver_profiles = <<>>
    /\ last = NoCall
    /\ proc = [h \in Handlers |-> Idle]
    /\ store = [key \in Keys |-> <<>>]
    /\ now = 0
    /\ log = <<>>
    /\ payments = <<>>
    /\ session = NoSession
    /\ db = {}
    /\ tx = NoTransaction
    /\ pipe = [h \in Handlers |-> NoRequest]

Next ==
    \/ \E context \in BuiltContexts : createTrip(context)
    \/ \E context \in BuiltContexts, id \in TripIds : cancelTrip(context, id)
    \/ \E context \in BuiltContexts, id \in TripIds : startTrip(context, id)
    \/ \E context \in BuiltContexts, id \in TripIds : completeTrip(context, id)
    \/ \E context \in BuiltContexts, tripId \in TripIds : createBooking(context, tripId)
    \/ \E context \in BuiltContexts, id \in BookingIds : confirmBooking(context, id)
    \/ \E context \in BuiltContexts, id \in BookingIds : cancelBooking(context, id)
    \/ \E context \in BuiltContexts : createVehicle(context)
    \/ \E context \in BuiltContexts, id \in VehicleIds : deleteVehicle(context, id)

Spec == Init /\ [][Next]_vars

(***************************************************************************)
(* Every Query and Mutation resolver of resolvers/index, by what it does   *)
(* on entry: `guarded` when its first statement is requireAuth(context);   *)
(* `userScoped` when its statement is keyed by the caller's uid; `queries` *)
(* the data-access calls it issues once past the guard.                    *)
(***************************************************************************)
Entry(name, type, guarded, userScoped, queries) ==
    [name |-> name, type |-> type, guarded |-> guarded, userScoped |-> userScoped,
     queries |-> queries]

userResolverEntries ==
    { Entry("me", "Query", TRUE, TRUE, 1),
      Entry("user", "Query", TRUE, FALSE, 1),
      Entry("verifyFirebaseToken", "Mutation", TRUE, TRUE, 1),
      Entry("createUser", "Mutation", TRUE, TRUE, 1),
      Entry("updateUser", "Mutation", TRUE, TRUE, 1),
      Entry("createDriverProfile", "Mutation", TRUE, TRUE, 1),
      Entry("updateDriverProfile", "Mutation", TRUE, TRUE, 1),
      Entry("toggleDriverAvailability", "Mutation", TRUE, TRUE, 1),
      Entry("createVehicle", "Mutation", TRUE, TRUE, 1),
      Entry("updateVehicle", "Mutation", TRUE, TRUE, 1),
      Entry("deleteVehicle", "Mutation", TRUE, TRUE, 1),
      Entry("generateUploadUrl", "Mutation", TRUE, FALSE, 0) }

tripResolverEntries ==
    { Entry("trips", "Query", FALSE, FALSE, 0),
      Entry("trip", "Query", TRUE, FALSE, 1),
      Entry("myTrips", "Query", TRUE, TRUE, 1),
      Entry("createTrip", "Mutation", TRUE, TRUE, 1),
      Entry("updateTrip", "Mutation", TRUE, TRUE, 1),
      Entry("cancelTrip", "Mutation", TRUE, TRUE, 1),
      Entry("startTrip", "Mutation", TRUE, TRUE, 1),
      Entry("completeTrip", "Mutation", TRUE, TRUE, 1) }

paymentResolverEntries ==
    { Entry("payment", "Query", TRUE, FALSE, 1),
      Entry("paymentHistory", "Query", TRUE, TRUE, 1),
      Entry("initializePayment", "Mutation", TRUE, TRUE, 2),
      Entry("verifyPayment", "Mutation", TRUE, FALSE, 2),
      Entry("processRefund", "Mutation", TRUE, FALSE, 2) }

bookingResolverEntries ==
    { Entry("booking", "Query", TRUE, FALSE, 1),
      Entry("myBookings", "Query", TRUE, TRUE, 1),
      Entry("tripBookings", "Query", TRUE, FALSE, 1),
      Entry("createBooking", "Mutation", TRUE, TRUE, 1),
      Entry("confirmBooking", "Mutation", TRUE, FALSE, 1),
      Entry("cancelBooking", "Mutation", TRUE, TRUE, 1) }

reviewResolverEntries ==
    { Entry("userReviews", "Query", TRUE, FALSE, 1),
      Entry("createReview", "Mutation", TRUE, TRUE, 4) }

notificationResolverEntries ==
    { Entry("myNotifications", "Query", TRUE, TRUE, 1),
      Entry("markNotificationAsRead", "Mutation", TRUE, TRUE, 1),
      Entry("markAllNotificationsAsRead", "Mutation", TRUE, TRUE, 1) }

resolvers ==
    userResolverEntries \cup tripResolverEntries \cup bookingResolverEntries
      \cup paymentResolverEntries \cup reviewResolverEntries \cup notificationResolverEntries

\* A resolver call up to its guard: it throws there, or goes on to its queries.
Enter(r, context) ==
    LET auth == requireAuth(context)
    IN  IF r.guarded /\ auth.threw
          THEN Threw(auth.message, 0)
          ELSE Returned(r.name, r.queries)

Resolve(r, context) ==
    /\ last' = Call(r.name, context, 0, <<>>, Enter(r, context))
    /\ UNCHANGED <<trips, bookings, vehicles, reviews, driver_profiles, proc, store, now, log, payments, session, db, tx, pipe>>

NextGuard == \E r \in resolvers, context \in Contexts : Resolve(r, context)

SpecGuard == Init /\ [][NextGuard]_vars

(***************************************************************************)
(* Properties of the guard and of the ownership-scoped statements.         *)
(***************************************************************************)
Production == BOOLEAN

\* C1: for an unauthenticated context every mutation resolver and every
\* user-scoped query resolver throws 'Authentication required', which the
\* classifier maps to 401 in every environment, before it issues any
\* data-access call.
C1_UnauthenticatedFailsBeforeData ==
    \A r \in resolvers :
        (/\ last.op = r.name
         /\ Unauthenticated(last.context)
         /\ (r.type = "Mutation" \/ r.userScoped))
        => /\ last.threw
           /\ last.message = MsgAuthenticationRequired
           /\ last.queries = 0
           /\ \A production \in Production :
                  /\ errorHandler(last.message, production).statusCode = 401
                  /\ errorHandler(last.message, production).code = "UNAUTHENTICATED"

C1_Witness ==
    /\ last.op = "createReview"
    /\ last.context = Anonymous
    /\ last.threw
    /\ last.queries = 0

\* C2: cancelTrip, startTrip, completeTrip and cancelBooking called by a
\* verified user on a row owned by someone else come to exactly what the same
\* call on an id that names no row comes to, and leave the table as it was;
\* deleteVehicle returns false in both cases and deletes nothing.
C2_NonOwnerSameAsMissing ==
    \A context \in BuiltContexts : context.isAuthenticated =>
        /\ \A id \in DOMAIN trips : trips[id].driver_id # context.user =>
              /\ cancelTripR(trips, context, id) = cancelTripR(trips, context, Len(trips) + 1)
              /\ startTripR(trips, context, id) = startTripR(trips, context, Len(trips) + 1)
              /\ completeTripR(trips, context, id) = completeTripR(trips, context, Len(trips) + 1)
              /\ cancelTripR(trips, context, id).table = trips
              /\ startTripR(trips, context, id).table = trips
              /\ completeTripR(trips, context, id).table = trips
              /\ cancelTripR(trips, context, id).out.threw
        /\ \A id \in DOMAIN bookings : bookings[id].rider_id # context.user =>
              /\ cancelBookingR(bookings, context, id)
                   = cancelBookingR(bookings, context, Len(bookings) + 1)
              /\ cancelBookingR(bookings, context, id).table = bookings
              /\ cancelBookingR(bookings, context, id).out.threw
        /\ \A id \in DOMAIN vehicles :
              (vehicles[id] # <<>> /\ vehicles[id][1].driver_id # context.user) =>
              /\ deleteVehicleR(vehicles, context, id)
                   = deleteVehicleR(vehicles, context, Len(vehicles) + 1)
              /\ deleteVehicleR(vehicles, context, id).table = vehicles
              /\ deleteVehicleR(vehicles, context, id).out.value = <<FALSE>>

C2_Witness ==
    /\ last.op = "cancelTrip"
    /\ ~Unauthenticated(last.context)
    /\ last.pre # <<>>
    /\ last.pre[1].driver_id # last.context.user
    /\ last.threw
    /\ last.message = MsgTripNotFound
    /\ TripRow(trips, last.id) = last.pre

\* C3: a trip's status never moves backward (scheduled, active, completed in
\* that order) and a cancelled or completed trip keeps its status.
StatusRank(status) ==
    CASE status = "scheduled" -> 0
      [] status = "active" -> 1
      [] status = "completed" -> 2
      [] status = "cancelled" -> 2

C3_StatusForwardOnly ==
    [][\A id \in DOMAIN trips :
          /\ StatusRank(trips'[id].trip_status) >= StatusRank(trips[id].trip_status)
          /\ trips[id].trip_status \in {"cancelled", "completed"}
               => trips'[id].trip_status = trips[id].trip_status]_vars

\* C6: a cancelTrip by the owner that runs after another cancelTrip of the
\* same trip has committed matches no row and throws the not-found error.
C6_SecondCancelMatchesNoRow ==
    (/\ last.op = "cancelTrip"
     /\ ~Unauthenticated(last.context)
     /\ last.pre # <<>>
     /\ last.pre[1].driver_id = last.context.user
     /\ last.pre[1].trip_status = "cancelled")
    => (last.threw /\ last.message = MsgTripNotFound)

\* C14: deleteVehicle by a verified user never throws, and returns true exactly
\* when a vehicle with that id owned by the caller existed when it was called
\* (and so was removed by it): true for the first call on an owned id, false
\* for the second.
C14_DeleteReturnsWhetherRemoved ==
    (last.op = "deleteVehicle" /\ ~Unauthenticated(last.context)) =>
        /\ ~last.threw
        /\ last.value = <<(last.pre # <<>> /\ last.pre[1].driver_id = last.context.user)>>
        /\ VehicleRow(vehicles, last.id) = <<>>

\* Whether a user has a driver identity: registered as a driver, or holding a
\* driver profile.
IsDriver(uid) ==
    \/ users[uid].user_type \in {"driver", "both"}
    \/ \E i \in DOMAIN driver_profiles : driver_profiles[i].user_id = uid

\* C18: a createTrip call that succeeds was made by a verified user with a
\* driver identity, and the trip it inserted is scheduled and driven by the
\* caller.
C18_OnlyDriversCreateTrips ==
    (last.op = "createTrip" /\ ~last.threw) =>
        /\ ~Unauthenticated(last.context)
        /\ IsDriver(last.context.user)
        /\ last.value[1].trip_status = "scheduled"
        /\ last.value[1].driver_id = last.context.user
        /\ TripRow(trips, last.id) # <<>>
        /\ TripRow(trips, last.id)[1].driver_id = last.context.user

(***************************************************************************)
(* The rate limiter under requests, the passing of time and the sweep.     *)
(***************************************************************************)
NextLimiter ==
    \/ \E req \in Requests : isAllowed(req)
    \/ cleanup
    \/ Tick

SpecLimiter == Init /\ [][NextLimiter]_vars

\* The fixed windows of a key, read off the sequence of requests alone: the
\* key's first request opens a window of length windowMs, a request that arrives
\* while the window is open falls into it, and the first request after it has
\* ended opens the next one.
PrevOfKey(l, i) ==
    LET earlier == {j \in 1..(i - 1) : l[j].key = l[i].key}
    IN  IF earlier = {} THEN 0 ELSE CHOOSE j \in earlier : \A k \in earlier : k <= j

RECURSIVE WindowOf(_, _)
WindowOf(l, i) ==
    LET p == PrevOfKey(l, i)
    IN  IF p = 0
          THEN [opened |-> l[i].at, position |-> 1]
          ELSE LET w == WindowOf(l, p)
               IN  IF l[i].at > w.opened + windowMs
                     THEN [opened |-> l[i].at, position |-> 1]
                     ELSE [opened |-> w.opened, position |-> w.position + 1]

LastOfKey(l, key) ==
    LET mine == {j \in 1..Len(l) : l[j].key = key}
    IN  IF mine = {} THEN 0 ELSE CHOOSE j \in mine : \A k \in mine : k <= j

\* C4: of the requests of one key that fall into the same window, the first
\* maxRequests are allowed and every later one is denied, whatever other keys do.
C4_FirstMAllowedRestDenied ==
    \A i \in 1..Len(log) : log[i].allowed <=> WindowOf(log, i).position <= maxRequests

C4_Witness ==
    \E i, j \in 1..Len(log) :
        /\ i < j
        /\ log[i].key # log[j].key
        /\ \E k \in (j + 1)..Len(log) :
              /\ log[k].key = log[i].key
              /\ WindowOf(log, k).opened = WindowOf(log, i).opened
              /\ WindowOf(log, k).position = maxRequests + 1
              /\ ~log[k].allowed
              /\ log[i].allowed

InitReview ==
    /\ trips = <<[id |-> 1, driver_id |-> "u1", trip_status |-> "completed"],
                 [id |-> 2, driver_id |-> "u2", trip_status |-> "completed"]>>
    /\ bookings = <<[id |-> 1, trip_id |-> 1, rider_id |-> "u2",
                     booking_status |-> "confirmed", payment_status |-> "pending"],
                    [id |-> 2, trip_id |-> 2, rider_id |-> "u1",
                     booking_status |-> "confirmed", payment_status |-> "pending"]>>
    /\ vehicles = <<>>
    /\ reviews = <<>>
    /\ driver_profiles = <<[user_id |-> "u1", license_number |-> "L1",
                             average_rating |-> <<0>>],
                           [user_id |-> "u2", license_number |-> "L2",
                             average_rating |-> <<0>>]>>
    /\ last = NoCall
    /\ proc = [h \in Handlers |-> Idle]
    /\ store = [key \in Keys |-> <<>>]
    /\ now = 0
    /\ log = <<>>
    /\ payments = <<>>
    /\ session = NoSession
    /\ db = {}
    /\ tx = NoTransaction
    /\ pipe = [h \in Handlers |-> NoRequest]

NextReview ==
    \/ \E h \in Handlers, context \in BuiltContexts, bookingId \in BookingIds,
          rating \in Ratings : createReview_lookup(h, context, bookingId, rating)
    \/ \E h \in Handlers : createReview_check(h)
    \/ \E h \in Handlers : createReview_insert(h)
    \/ \E h \in Handlers : createReview_recompute(h)

SpecReview == InitReview /\ [][NextReview]_vars

\* C7: no two review rows have the same booking and the same reviewer.
C7_OneReviewPerPair ==
    \A i, j \in DOMAIN reviews :
        (reviews[i].booking_id = reviews[j].booking_id
           /\ reviews[i].reviewer_id = reviews[j].reviewer_id) => i = j

\* C8: once no createReview call is in flight, the average_rating of every
\* driver profile whose user has been reviewed is the mean, to two decimals,
\* of all ratings whose reviewee is that user.
C8_AverageIsMeanOfAllRatings ==
    InFlight = {} =>
        \A i \in DOMAIN driver_profiles :
            ReviewsOf(reviews, driver_profiles[i].user_id) # <<>> =>
                driver_profiles[i].average_rating
                    = AvgRating(reviews, driver_profiles[i].user_id)

\* C9: a createReview call by a verified user with a rating below 1 or above 5
\* throws the rating error having issued no query; the step writes no review
\* row and changes no average_rating.
C9_BadRatingRejectedBeforeQueries ==
    [][(/\ last' # last
        /\ last'.op = "createReview"
        /\ ~Unauthenticated(last'.context)
        /\ (last'.arg < 1 \/ last'.arg > 5))
       => /\ last'.threw
          /\ last'.message = MsgRating
          /\ last'.queries = 0
          /\ reviews' = reviews
          /\ driver_profiles' = driver_profiles]_vars

C9_Witness ==
    /\ last.op = "createReview"
    /\ ~Unauthenticated(last.context)
    /\ last.arg = 6
    /\ last.message = MsgRating
    /\ last.queries = 0
    /\ reviews # <<>>

\* C10 as claimed: a createReview call by a verified user for a (booking,
\* reviewer) pair that had a review when the call began throws the
\* already-exists error, classified 409, whatever its rating.
C10_DuplicateAlwaysConflict ==
    (/\ last.op = "createReview"
     /\ ~Unauthenticated(last.context)
     /\ last.pre # <<>>)
    => /\ last.message = MsgReviewExists
       /\ \A production \in Production :
              errorHandler(last.message, production).statusCode = 409

\* C10 as amended: such a call with a rating in 1..5 throws the already-exists
\* error, classified 409 CONFLICT in every environment, whether or not the
\* rating is that of the existing review; with a rating outside 1..5 it throws
\* the rating error instead.
C10_DuplicateConflictForValidRating ==
    (/\ last.op = "createReview"
     /\ ~Unauthenticated(last.context)
     /\ last.pre # <<>>)
    => IF last.arg >= 1 /\ last.arg <= 5
         THEN /\ last.threw
              /\ last.message = MsgReviewExists
              /\ \A production \in Production :
                     /\ errorHandler(last.message, production).statusCode = 409
                     /\ errorHandler(last.message, production).code = "CONFLICT"
         ELSE /\ last.threw
              /\ last.message = MsgRating

C10_Witness ==
    /\ last.op = "createReview"
    /\ ~Unauthenticated(last.context)
    /\ last.pre # <<>>
    /\ last.arg \in 1..5
    /\ last.arg # last.pre[1].rating
    /\ last.message = MsgReviewExists
    /\ Len(reviews) = 1

(***************************************************************************)
(* The guard functions on their own: requests through authMiddleware, and  *)
(* requireAuth / requireRole applied to every context shape.               *)
(***************************************************************************)
callRequireAuth(context) ==
    /\ LET auth == requireAuth(context)
       IN  last' = Call("requireAuth", context, 0, <<>>,
                        IF auth.threw THEN Threw(auth.message, 0)
                                      ELSE Returned(auth.user, 0))
    /\ UNCHANGED <<trips, bookings, vehicles, reviews, driver_profiles, proc, store, now, log,
                   payments, session, db, tx, pipe>>

callRequireRole(context, requiredRole) ==
    /\ LET auth == requireRole(context, requiredRole)
       IN  last' = Call("requireRole", context, 0, <<requiredRole>>,
                        IF auth.threw THEN Threw(auth.message, 0)
                                      ELSE Returned(auth.user, 0))
    /\ UNCHANGED <<trips, bookings, vehicles, reviews, driver_profiles, proc, store, now, log,
                   payments, session, db, tx, pipe>>

NextAuth ==
    \/ \E req \in AuthRequests : authMiddleware(req)
    \/ \E context \in ClaimsContexts : callRequireAuth(context)
    \/ \E context \in ClaimsContexts, requiredRole \in RequiredRoles :
          callRequireRole(context, requiredRole)

SpecAuth == Init /\ [][NextAuth]_vars

\* The authorization header of a request, <<>> when it has none, and the
\* credential it carries when it reads 'Bearer ' followed by the credential.
HeaderOf(req) ==
    IF req.headers = <<>> THEN <<>> ELSE req.headers[1].authorization

BearerTokens(req) ==
    IF HeaderOf(req) = <<>>
      THEN {}
      ELSE {SubSeq(HeaderOf(req)[1], i, Len(HeaderOf(req)[1])) :
                i \in {j \in 1..(Len(HeaderOf(req)[1]) + 1) :
                          SubSeq(HeaderOf(req)[1], 1, j - 1) = BearerPrefix}}

\* C15: authMiddleware never raises; it builds an authenticated context, whose
\* user is the subject of the decoded token, exactly when the authorization
\* header is 'Bearer ' followed by a token the identity provider accepts, and
\* the anonymous context otherwise; the verifier is handed that token once,
\* and nothing when the header is absent or does not start with 'Bearer '.
C15_AuthenticatedIffBearerAccepted ==
    session.handled =>
        /\ ~session.raised
        /\ session.context.isAuthenticated
             <=> \E token \in BearerTokens(session.req) : verifyIdToken(token) # <<>>
        /\ session.context.isAuthenticated =>
             \E token \in BearerTokens(session.req) :
                 /\ verifyIdToken(token) # <<>>
                 /\ session.context.user = verifyIdToken(token)[1]["uid"]
                 /\ session.context.user \in Users
        /\ ~session.context.isAuthenticated => session.context = AnonymousContext
        /\ BearerTokens(session.req) = {} => session.verified = <<>>
        /\ \A token \in BearerTokens(session.req) : session.verified = <<token>>

C15_Witness ==
    /\ session.handled
    /\ session.context.isAuthenticated
    /\ session.context.user = "u2"
    /\ session.verified = << <<"b">> >>

\* C16: requireAuth returns the context's user whenever the context carries a
\* user, and throws 'Authentication required' when it carries none.
C16_ReturnsUserWheneverPresent ==
    last.op = "requireAuth" =>
        IF last.context.user # Undefined
          THEN ~last.threw /\ last.value = <<last.context.user>>
          ELSE last.threw /\ last.message = MsgAuthenticationRequired

\* Whether the context's claims hold the role: the claim is there and truthy.
HasRole(context, requiredRole) ==
    \E claims \in {context.custom_claims[i] : i \in DOMAIN context.custom_claims} :
        /\ claims[requiredRole] # Undefined
        /\ claims[requiredRole] # "false"
        /\ claims[requiredRole] # ""

\* C17: requireRole throws the authentication-required error (401) for an
\* unauthenticated context; for an authenticated one it throws the
\* insufficient-permissions error, classified 403 FORBIDDEN in every
\* environment, when the claims do not hold the role, and returns the identity
\* when they do.
C17_RoleGuard ==
    last.op = "requireRole" =>
        IF Unauthenticated(last.context)
          THEN /\ last.threw
               /\ last.message = MsgAuthenticationRequired
               /\ \A production \in Production :
                      errorHandler(last.message, production).statusCode = 401
        ELSE IF ~HasRole(last.context, last.pre[1])
          THEN /\ last.threw
               /\ Includes(last.message, <<"Insufficient", "permissions">>)
               /\ \A production \in Production :
                      /\ errorHandler(last.message, production).statusCode = 403
                      /\ errorHandler(last.message, production).code = "FORBIDDEN"
        ELSE /\ ~last.threw
             /\ last.value = <<last.context.user>>

C17_Witness ==
    /\ last.op = "requireRole"
    /\ ~Unauthenticated(last.context)
    /\ last.pre = <<"admin">>
    /\ last.context.custom_claims # <<>>
    /\ last.context.custom_claims[1]["admin"] = "false"
    /\ last.threw
    /\ last.message = MsgInsufficientPermissions("admin")

(***************************************************************************)
(* Payments and booking status under concurrent request handlers, over the *)
(* two trips and two pending bookings of the review scenario.              *)
(***************************************************************************)
InitPayment ==
    /\ trips = <<[id |-> 1, driver_id |-> "u1", trip_status |-> "scheduled"],
                 [id |-> 2, driver_id |-> "u2", trip_status |-> "scheduled"]>>
    /\ bookings = <<[id |-> 1, trip_id |-> 1, rider_id |-> "u2",
                     booking_status |-> "pending", payment_status |-> "pending"],
                    [id |-> 2, trip_id |-> 2, rider_id |-> "u1",
                     booking_status |-> "pending", payment_status |-> "pending"]>>
    /\ vehicles = <<>>
    /\ reviews = <<>>
    /\ driver_profiles = <<>>
    /\ last = NoCall
    /\ proc = [h \in Handlers |-> Idle]
    /\ store = [key \in Keys |-> <<>>]
    /\ now = 0
    /\ log = <<>>
    /\ payments = <<>>
    /\ session = NoSession
    /\ db = {}
    /\ tx = NoTransaction
    /\ pipe = [h \in Handlers |-> NoRequest]

NextPayment ==
    \/ \E context \in BuiltContexts, bookingId \in BookingIds :
          initializePayment(context, bookingId)
    \/ \E context \in BuiltContexts, reference \in PaymentIds :
          verifyPayment(context, reference)
    \/ \E h \in Handlers, context \in BuiltContexts, paymentId \in PaymentIds :
          processRefund_payment(h, context, paymentId)
    \/ \E h \in Handlers : processRefund_booking(h)

SpecPayment == InitPayment /\ [][NextPayment]_vars

\* The same with the two booking status mutations.
NextBooking ==
    \/ \E context \in BuiltContexts, bookingId \in BookingIds :
          initializePayment(context, bookingId)
    \/ \E context \in BuiltContexts, reference \in PaymentIds :
          verifyPayment(context, reference)
    \/ \E h \in Handlers, context \in BuiltContexts, paymentId \in PaymentIds :
          processRefund_payment(h, context, paymentId)
    \/ \E h \in Handlers : processRefund_booking(h)
    \/ \E context \in BuiltContexts, id \in BookingIds : confirmBooking(context, id)
    \/ \E context \in BuiltContexts, id \in BookingIds : cancelBooking(context, id)

SpecBooking == InitPayment /\ [][NextBooking]_vars

\* C11: a step changes a booking's booking_status only when it is cancelBooking
\* called by the booking's rider (to cancelled), or the confirmation that
\* verifyPayment makes of a booking whose payment it has completed.
C11_StatusOnlyByRiderOrPayment ==
    [][\A id \in DOMAIN bookings :
          bookings'[id].booking_status # bookings[id].booking_status =>
              \/ /\ last'.op = "cancelBooking"
                 /\ last'.id = id
                 /\ last'.context.user = bookings[id].rider_id
                 /\ bookings'[id].booking_status = "cancelled"
              \/ /\ last'.op = "verifyPayment"
                 /\ ~last'.threw
                 /\ last'.value[1].booking_id = id
                 /\ bookings'[id].booking_status = "confirmed"]_vars

\* C12: no two payment rows have the same booking.
C12_OnePaymentPerBooking ==
    \A i, j \in DOMAIN payments :
        payments[i].booking_id = payments[j].booking_id => i = j

NextProfile ==
    \E context \in BuiltContexts, licenseNumber \in LicenseNumbers :
        createDriverProfile(context, licenseNumber)

SpecProfile == Init /\ [][NextProfile]_vars

\* C20: no two driver profile rows have the same user.
C20_OneProfilePerUser ==
    \A i, j \in DOMAIN driver_profiles :
        driver_profiles[i].user_id = driver_profiles[j].user_id => i = j

(***************************************************************************)
(* From the empty store to a review: a trip is created, booked, reviewed.  *)
(***************************************************************************)
NextJourney ==
    \/ \E context \in BuiltContexts : createTrip(context)
    \/ \E context \in BuiltContexts, tripId \in TripIds : createBooking(context, tripId)
    \/ \E h \in Handlers, context \in BuiltContexts, bookingId \in BookingIds,
          rating \in Ratings : createReview_lookup(h, context, bookingId, rating)
    \/ \E h \in Handlers : createReview_check(h)
    \/ \E h \in Handlers : createReview_insert(h)
    \/ \E h \in Handlers : createReview_recompute(h)

SpecJourney == Init /\ [][NextJourney]_vars

\* C19: a createReview call that succeeds was made by the rider or the driver
\* of its booking; every review's reviewee is the other party of its booking
\* (the trip's driver when the reviewer is the rider, the rider when the
\* reviewer is the driver), and is never the reviewer.
C19_RevieweeIsOtherParty ==
    /\ (last.op = "createReview" /\ ~last.threw) =>
           \/ last.context.user = bookings[last.id].rider_id
           \/ last.context.user = trips[bookings[last.id].trip_id].driver_id
    /\ \A i \in DOMAIN reviews :
           LET rider == bookings[reviews[i].booking_id].rider_id
               driver == trips[bookings[reviews[i].booking_id].trip_id].driver_id
           IN  /\ reviews[i].reviewer_id # reviews[i].reviewee_id
               /\ \/ reviews[i].reviewer_id = rider /\ reviews[i].reviewee_id = driver
                  \/ reviews[i].reviewer_id = driver /\ reviews[i].reviewee_id = rider

(***************************************************************************)
(* transaction(callback) beside statements of other requests.              *)
(***************************************************************************)
NextTransaction ==
    \/ \E callback \in Callbacks : transaction_begin(callback)
    \/ transaction_write
    \/ transaction_settle
    \/ \E value \in TxValues : query(value)

SpecTransaction == Init /\ [][NextTransaction]_vars

\* C22: while a transaction is open none of its writes is among the committed
\* rows; when the callback returns, transaction returns its result and all its
\* writes are committed; when it throws, transaction rethrows that error and
\* none of its writes is committed, then or later.
C22_CommitOrRollback ==
    /\ tx.pc = "open" => \A row \in db : row.tx # tx.id
    /\ last.op = "transaction" =>
          LET callback == last.pre[1]
              mine == {row \in db : row.tx = last.id}
          IN  IF callback.error = MsgNone
                THEN /\ ~last.threw
                     /\ last.value = <<Len(callback.writes)>>
                     /\ mine = {[tx |-> last.id, value |-> callback.writes[i]] :
                                    i \in DOMAIN callback.writes}
                ELSE /\ last.threw
                     /\ last.message = callback.error
                     /\ mine = {}
    /\ \A row \in db : row.tx < tx.id \/ (row.tx = tx.id /\ tx.pc = "idle")

C22_Witness ==
    /\ last.op = "transaction"
    /\ last.threw
    /\ Len(last.pre[1].writes) = 2
    /\ last.id = 2
    /\ \E row \in db : row.tx = 1
    /\ \E row \in db : row.tx = 0

TripStatusOps == {"cancelTrip", "startTrip", "completeTrip"}

\* C21: a cancelTrip, startTrip or completeTrip call leaves every booking as
\* it was (booking_status and payment_status included) and still returned by
\* the booking query, leaves every other trip as it was, and changes nothing
\* of the targeted trip but its trip_status.
C21_OnlyTargetTripStatusChanges ==
    [][last'.op \in TripStatusOps =>
          /\ DOMAIN bookings' = DOMAIN bookings
          /\ \A b \in DOMAIN bookings :
                /\ BookingRow(bookings', b) = <<bookings[b]>>
                /\ bookings'[b].booking_status = bookings[b].booking_status
                /\ bookings'[b].payment_status = bookings[b].payment_status
          /\ DOMAIN trips' = DOMAIN trips
          /\ \A t \in DOMAIN trips :
                IF t = last'.id
                  THEN trips'[t] = [trips[t] EXCEPT !.trip_status = trips'[t].trip_status]
                  ELSE trips'[t] = trips[t]]_vars

C21_Witness ==
    /\ last.op \in TripStatusOps
    /\ ~last.threw
    /\ \E b \in DOMAIN bookings :
          /\ bookings[b].trip_id = last.id
          /\ bookings[b].booking_status = "pending"
    /\ trips[last.id].trip_status = "cancelled"

\* C23: every failure a resolver throws is classified with the status of its
\* kind: authentication required 401, insufficient permissions 403, not found
\* or unauthorized 404, duplicate or conflict 409, a rating outside 1..5 (a
\* caller-input validation failure) 400, anything else 500.
C23_StatusOfTaxonomyKind ==
    last.threw =>
        \A production \in Production :
            errorHandler(last.message, production).statusCode =
                CASE last.message = MsgAuthenticationRequired -> 401
                  [] last.message \in {MsgInsufficientPermissions(role) : role \in RequiredRoles}
                        -> 403
                  [] last.message \in {MsgTripNotFound, MsgBookingNotFoundOrUnauthorized,
                                       MsgBookingNotFound, MsgPaymentNotFound} -> 404
                  [] last.message \in {MsgReviewExists, MsgDuplicateKey} -> 409
                  [] last.message = MsgRating -> 400
                  [] OTHER -> 500

(***************************************************************************)
(* formatError (index): every error of a response goes through             *)
(* errorHandler, in a process started with or without                      *)
(* NODE_ENV = 'production'.  The messages are those the resolvers and the  *)
(* store throw and every short string of the phrases the classifier looks  *)
(* for, a capitalised one and one it does not know.                        *)
(***************************************************************************)
ErrorPhrases ==
    {<<"Authentication", "required">>, <<"Insufficient", "permissions">>, <<"not", "found">>,
     <<"duplicate", "key">>, <<"already", "exists">>, <<"validation">>, <<"Validation">>,
     <<"database">>, <<"connection">>, <<"timeout">>}

RECURSIVE Join(_)
Join(phrases) == IF phrases = <<>> THEN <<>> ELSE Head(phrases) \o Join(Tail(phrases))

ThrownMessages ==
    {MsgAuthenticationRequired, MsgTripNotFound, MsgBookingNotFoundOrUnauthorized,
     MsgBookingNotFound, MsgRating, MsgReviewExists, MsgCheckConstraint, MsgForeignKey,
     MsgPaymentNotFound, MsgInvalidEnum, MsgDuplicateKey, MsgTransactionFailed}
      \cup {MsgInsufficientPermissions(role) : role \in RequiredRoles}

ErrorMessages ==
    ThrownMessages \cup {Join(phrases) : phrases \in SeqsUpTo(ErrorPhrases, MaxPhrases)}

formatError(message, production) ==
    /\ last' = Call("errorHandler", Anonymous, 0,
                    <<[message |-> message, production |-> production]>>,
                    Returned(errorHandler(message, production), 0))
    /\ UNCHANGED <<trips, bookings, vehicles, reviews, driver_profiles, proc, store, now, log,
                   payments, session, db, tx, pipe>>

NextClassifier ==
    \E message \in ErrorMessages, production \in Production : formatError(message, production)

SpecClassifier == Init /\ [][NextClassifier]_vars

\* The kinds the caller is told about: the message names an authentication,
\* permission, not-found, conflict or validation failure.
CallerFacing(message) ==
    \E pat \in {<<"Authentication", "required">>, <<"Insufficient", "permissions">>,
                <<"not", "found">>, <<"duplicate", "key">>, <<"already", "exists">>,
                <<"validation">>} : Includes(message, pat)

\* A data-access failure by its wording.
Internal(message) == Includes(message, <<"database">>) \/ Includes(message, <<"connection">>)

RedactedMessages ==
    {<<"Database", "error", "occurred">>, <<"An", "unexpected", "error", "occurred">>}

\* C24: in production a failure that is internal or unclassified is answered
\* with status 500 and one of the fixed messages, never its own message;
\* outside production an unclassified failure is answered with status 500
\* and its own message, unchanged.
C24_RedactedInProductionOnly ==
    last.op = "errorHandler" =>
        LET message == last.pre[1].message
            production == last.pre[1].production
            result == last.value[1]
        IN  /\ (production /\ ~CallerFacing(message)) =>
                  /\ result.statusCode = 500
                  /\ result.message \in RedactedMessages
                  /\ result.message # message
            /\ (~production /\ ~CallerFacing(message) /\ ~Internal(message)) =>
                  /\ result.statusCode = 500
                  /\ result.message = message

C24_Witness ==
    /\ last.op = "errorHandler"
    /\ last.pre[1].production
    /\ last.pre[1].message = MsgCheckConstraint
    /\ last.value[1].message = <<"An", "unexpected", "error", "occurred">>

(***************************************************************************)
(* The request pipeline of index: app.use('/graphql', rateLimiter), then   *)
(* the Apollo middleware, which builds the context with authMiddleware and *)
(* then runs the operation's resolver.  Each request handler is at one     *)
(* place of it; pipe[h].trail lists the stages its request has run.        *)
(***************************************************************************)
PipelineRequests ==
    {[forwarded |-> <<>>, remoteAddress |-> "ip1", headers |-> headers] :
        headers \in {<<>>, <<[authorization |-> <<BearerPrefix \o <<"a">>>>]>>,
                     <<[authorization |-> <<BearerPrefix \o <<"x">>>>]>>}}

\* The operations a request may carry: an open query and a guarded one.
Operations == {r \in resolvers : r.name \in {"trips", "me"}}

\* Milliseconds in a second: the divisor of the retryAfter expression.
MsPerSecond == 1000

\* Math.ceil(a / b) for b > 0.
Ceil(a, b) == -((-a) \div b)

\* new Date(t).toISOString(): the instant to the millisecond, as text.
toISOString(t) == <<"ISO", t>>

\* rateLimiterMiddleware that calls next() whatever isAllowed answered.
rateLimiterMiddlewareR_AlwaysNext(st, req, t, t2) ==
    LET r == isAllowedR(st, req, t)
    IN  [store |-> r.store,
         headers |-> <<[limit |-> maxRequests, remaining |-> r.remaining,
                        reset |-> toISOString(r.resetTime)]>>,
         status |-> IF r.allowed THEN 0 ELSE 429,
         body |-> IF r.allowed THEN <<>>
                  ELSE <<[error |-> "Too Many Requests",
                          retryAfter |-> Ceil(r.resetTime - t2, MsPerSecond)]>>,
         next |-> TRUE]

\* rateLimiterMiddleware with the retry-after left in milliseconds.
rateLimiterMiddlewareR_RetryInMs(st, req, t, t2) ==
    LET r == isAllowedR(st, req, t)
    IN  [store |-> r.store,
         headers |-> <<[limit |-> maxRequests, remaining |-> r.remaining,
                        reset |-> toISOString(r.resetTime)]>>,
         status |-> IF r.allowed THEN 0 ELSE 429,
         body |-> IF r.allowed THEN <<>>
                  ELSE <<[error |-> "Too Many Requests",
                          retryAfter |-> r.resetTime - t2]>>,
         next |-> r.allowed]

\* rateLimiterMiddleware with isAllowed reading Date.now() = t and the
\* retryAfter expression reading Date.now() = t2: the headers it sets, the
\* response it sends when the request is denied, and whether it calls next().
rateLimiterMiddlewareR(st, req, t, t2) ==
    LET r == isAllowedR(st, req, t)
    IN  [store |-> r.store,
         headers |-> <<[limit |-> maxRequests, remaining |-> r.remaining,
                        reset |-> toISOString(r.resetTime)]>>,
         status |-> IF r.allowed THEN 0 ELSE 429,
         body |-> IF r.allowed THEN <<>>
                  ELSE <<[error |-> "Too Many Requests",
                          retryAfter |-> Ceil(r.resetTime - t2, MsPerSecond)]>>,
         next |-> r.allowed]

\* A request arrives at a free handler and runs the rate limiter.
rateLimiterMiddleware(h, req, t2) ==
    /\ pipe[h].stage \in {"idle", "done"}
    /\ IF store[getKey(req)] = <<>> THEN TRUE ELSE store[getKey(req)][1].count < MaxCount
    /\ t2 <= MaxTime
    /\ LET r == rateLimiterMiddlewareR(store, req, now, t2)
       IN  /\ store' = r.store
           /\ pipe' = [pipe EXCEPT ![h] =
                          [stage |-> IF r.next THEN "context" ELSE "done", req |-> <<req>>,
                           trail |-> <<"rateLimiter">>, next |-> r.next,
                           status |-> r.status, headers |-> r.headers, body |-> r.body,
                           context |-> <<>>]]
    /\ now' = t2
    /\ UNCHANGED <<trips, bookings, vehicles, reviews, driver_profiles, last, proc, log,
                   payments, session, db, tx>>

\* The ApolloServer context function: await authMiddleware(req).
context(h) ==
    /\ pipe[h].stage = "context"
    /\ LET r == authMiddlewareR(pipe[h].req[1])
       IN  /\ session' = [handled |-> TRUE, req |-> pipe[h].req[1], context |-> r.context,
                          verified |-> r.verified, raised |-> r.raised]
           /\ pipe' = [pipe EXCEPT ![h].stage = "resolve",
                                   ![h].trail = Append(@, "authMiddleware"),
                                   ![h].context = <<r.context>>]
    /\ UNCHANGED <<trips, bookings, vehicles, reviews, driver_profiles, last, proc, store, now,
                   log, payments, db, tx>>

\* The operation's resolver runs with the context built for the request, and
\* the response is sent.
dispatch(h, r) ==
    /\ pipe[h].stage = "resolve"
    /\ last' = Call(r.name, pipe[h].context[1], 0, <<>>, Enter(r, pipe[h].context[1]))
    /\ pipe' = [pipe EXCEPT ![h].stage = "done",
                            ![h].trail = Append(@, "resolver"),
                            ![h].status = 200]
    /\ UNCHANGED <<trips, bookings, vehicles, reviews, driver_profiles, proc, store, now, log,
                   payments, session, db, tx>>

NextPipeline ==
    \/ \E h \in Handlers, req \in PipelineRequests, t2 \in {now, now + 1} :
          rateLimiterMiddleware(h, req, t2)
    \/ \E h \in Handlers : context(h)
    \/ \E h \in Handlers, r \in Operations : dispatch(h, r)
    \/ Tick

SpecPipeline == Init /\ [][NextPipeline]_vars

PipelineOrder == <<"rateLimiter", "authMiddleware", "resolver">>

\* The request of handler h has just gone through the rate limiter.
Limited(h) == pipe'[h] # pipe[h] /\ pipe'[h].trail = <<"rateLimiter">>

\* The entry of the request's key after the limiter has counted the request.
EntryOf(h) == store'[getKey(pipe'[h].req[1])][1]

\* C25: a request runs the rate limiter, then context building, then its
\* resolver, in that order; one the limiter denies (its count is above
\* maxRequests) is answered 429 there and runs nothing more, so credentials
\* are verified and resolvers run only for requests the limiter allowed.
C25_DeniedStopsAtLimiter ==
    /\ [](\A h \in Handlers :
            pipe[h].stage # "idle" =>
               /\ pipe[h].trail = SubSeq(PipelineOrder, 1, Len(pipe[h].trail))
               /\ pipe[h].status = 429 =>
                     /\ pipe[h].stage = "done"
                     /\ pipe[h].trail = <<"rateLimiter">>
                     /\ pipe[h].context = <<>>)
    /\ [][/\ \A h \in Handlers :
                Limited(h) =>
                   IF EntryOf(h).count > maxRequests
                     THEN pipe'[h].status = 429 /\ pipe'[h].stage = "done"
                     ELSE pipe'[h].status = 0 /\ pipe'[h].stage = "context"
          /\ session' # session =>
                \E h \in Handlers :
                   /\ pipe[h].status # 429
                   /\ pipe[h].trail = <<"rateLimiter">>
                   /\ pipe'[h].trail = <<"rateLimiter", "authMiddleware">>
                   /\ session'.req = pipe[h].req[1]
          /\ last' # last =>
                \E h \in Handlers :
                   /\ pipe[h].status # 429
                   /\ pipe[h].trail = <<"rateLimiter", "authMiddleware">>
                   /\ pipe'[h].trail = PipelineOrder
                   /\ last'.context = pipe[h].context[1]]_vars

\* A denied request has stopped at the limiter while the other handler's
\* allowed request has been verified and resolved.
C25_Witness ==
    /\ pipe["h1"].status = 429
    /\ pipe["h1"].trail = <<"rateLimiter">>
    /\ pipe["h2"].trail = PipelineOrder
    /\ pipe["h2"].status = 200
    /\ session.verified # <<>>
    /\ last.op = "me"

\* C26 as stated: a denied request is answered 429 with a retry-after, in
\* seconds, of at most the window length (windowMs milliseconds), and every
\* response carries the remaining quota max(0, maxRequests - count) and the
\* window's reset time.
C26_RetryAfterWithinWindow ==
    /\ [](\A h \in Handlers :
            pipe[h].status = 429 => pipe[h].body[1].retryAfter * MsPerSecond <= windowMs)
    /\ [][\A h \in Handlers :
            Limited(h) =>
               /\ pipe'[h].status = 429 <=> EntryOf(h).count > maxRequests
               /\ pipe'[h].headers[1].remaining = Max(0, maxRequests - EntryOf(h).count)
               /\ pipe'[h].headers[1].reset = toISOString(EntryOf(h).resetTime)]_vars

\* C26 as amended: the retry-after is a whole number of seconds between 0 and
\* the window length rounded up to whole seconds; every response, allowed or
\* denied, carries the remaining quota max(0, maxRequests - count) and the
\* window's reset time from the limiter on.
C26_RetryAfterWithinWindowRoundedUp ==
    /\ [](\A h \in Handlers :
            /\ pipe[h].status = 429 =>
                  /\ pipe[h].body[1].retryAfter >= 0
                  /\ pipe[h].body[1].retryAfter <= Ceil(windowMs, MsPerSecond)
            /\ pipe[h].stage # "idle" => pipe[h].headers # <<>>)
    /\ [][\A h \in Handlers :
            /\ Limited(h) =>
                  /\ pipe'[h].status = 429 <=> EntryOf(h).count > maxRequests
                  /\ pipe'[h].headers[1].remaining = Max(0, maxRequests - EntryOf(h).count)
                  /\ pipe'[h].headers[1].reset = toISOString(EntryOf(h).resetTime)
            /\ (pipe[h].stage # "idle" /\ ~Limited(h)) => pipe'[h].headers = pipe[h].headers]_vars

\* A denied request told to retry in one second, in a two-millisecond window.
C26_Witness ==
    \E h \in Handlers :
        /\ pipe[h].status = 429
        /\ pipe[h].body[1].retryAfter = 1
        /\ pipe[h].headers[1].remaining = 0
        /\ store["ip1"][1].count = maxRequests + 1

\* C27: a step that changes a payment row, or a booking row, is made for a
\* caller who is the rider of the booking concerned (the owner of the booking
\* and of its payment).
C27_OnlyOwnerChangesRows ==
    [][/\ \A p \in DOMAIN payments :
             payments'[p] # payments[p] =>
                \E h \in Handlers :
                   /\ proc'[h].pc = "refund_booking"
                   /\ proc'[h].paymentId = p
                   /\ proc'[h].context.user = bookings[payments[p].booking_id].rider_id
       /\ \A b \in DOMAIN bookings :
             bookings'[b] # bookings[b] =>
                \E h \in Handlers :
                   /\ proc[h].pc = "refund_booking"
                   /\ proc[h].context.user = bookings[b].rider_id]_vars

\* The limiter without the sweep: the store after the first n logged requests
\* have gone through isAllowed, with cleanup never run.
RECURSIVE Unswept(_, _)
Unswept(l, n) ==
    IF n = 0 THEN [key \in Keys |-> <<>>]
    ELSE isAllowedR(Unswept(l, n - 1),
                    [forwarded |-> <<>>, remoteAddress |-> l[n].key], l[n].at).store

\* C28: every request got, from the limiter whose sweep runs at any point
\* between requests, the decision, remaining quota and reset time that the
\* limiter without the sweep gives it (stated of the latest request, in every
\* reachable state); and the sweep has removed from the store only entries
\* whose window has ended.
C28_SweepChangesNoAnswer ==
    LET n == Len(log)
        before == Unswept(log, n - 1)
    IN  n > 0 =>
          LET r == isAllowedR(before, [forwarded |-> <<>>, remoteAddress |-> log[n].key],
                              log[n].at)
          IN  /\ r.allowed = log[n].allowed
              /\ r.remaining = log[n].remaining
              /\ r.resetTime = log[n].resetTime
              /\ \A key \in Keys :
                    \/ store[key] = r.store[key]
                    \/ /\ store[key] = <<>>
                       /\ r.store[key][1].resetTime < now

\* A request of a key that was being denied, answered after the sweep had
\* removed the key's entry.
C28_Witness ==
    \E i \in 1..Len(log) :
        /\ ~log[i].hadEntry
        /\ PrevOfKey(log, i) # 0
        /\ ~log[PrevOfKey(log, i)].allowed
        /\ log[i].allowed
        /\ i < Len(log)

\* C29: isAllowed is one step, so however the requests of concurrent
\* handlers are ordered, a key's entry counts every request of its window
\* (no increment is lost) and at most maxRequests requests of one key are
\* allowed in one window (stated of each key's latest window, in every
\* reachable state).
C29_NoLostIncrement ==
    \A key \in Keys :
        LET p == LastOfKey(log, key)
        IN  /\ store[key] # <<>> =>
                  /\ p # 0
                  /\ store[key][1].count = WindowOf(log, p).position
                  /\ store[key][1].resetTime = WindowOf(log, p).opened + windowMs
            /\ p # 0 =>
                  Cardinality({j \in 1..Len(log) :
                                  /\ log[j].key = key
                                  /\ WindowOf(log, j).opened = WindowOf(log, p).opened
                                  /\ log[j].allowed}) <= maxRequests

\* Requests of both keys interleaved at one instant, one key driven past the
\* limit.
C29_Witness ==
    /\ Len(log) = MaxLog
    /\ \A i \in 1..Len(log) : log[i].at = log[1].at
    /\ log[1].key # log[2].key
    /\ store[log[1].key][1].count = maxRequests + 2
    /\ store[log[2].key][1].count = 1

\* C30: a request of a key whose window is open raises the stored count by
\* exactly one and leaves the reset time as it was, allowed or denied; a
\* request of a key that was being denied, arriving after that window's reset
\* time, is allowed.
C30_OpenWindowCountsAndStays ==
    [][Len(log') = Len(log) + 1 =>
         LET e == log'[Len(log')]
         IN  store[e.key] # <<>> =>
                IF store[e.key][1].resetTime >= now
                  THEN /\ store'[e.key][1].count = store[e.key][1].count + 1
                       /\ store'[e.key][1].resetTime = store[e.key][1].resetTime
                       /\ e.resetTime = store[e.key][1].resetTime
                       /\ e.allowed <=> store[e.key][1].count < maxRequests
                  ELSE /\ e.allowed
                       /\ store'[e.key][1].count = 1]_vars

\* A key denied twice in one window and allowed again right after the
\* window's original reset time.
C30_Witness ==
    /\ Len(log) = maxRequests + 3
    /\ \A i \in 1..Len(log) : log[i].key = log[1].key
    /\ \A i \in 1..(maxRequests + 2) : log[i].resetTime = log[1].resetTime
    /\ ~log[maxRequests + 1].allowed
    /\ ~log[maxRequests + 2].allowed
    /\ log[maxRequests + 2].at > log[maxRequests + 1].at
    /\ log[maxRequests + 3].hadEntry
    /\ log[maxRequests + 3].allowed
    /\ log[maxRequests + 3].at = log[1].resetTime + 1

====
